---- MODULE Spec2Model ----
(***************************************************************************)
(* A model of python-dabepg: the identifier and value types of             *)
(* src/dabepg/__init__.py (ContentId, Bearer, Crid, Multimedia), the scope *)
(* aggregation of Schedule.get_scope, and the XML marshalling engine of    *)
(* src/dabepg/xml/__init__.py.                                             *)
(*                                                                         *)
(* Python values are tagged records: None, PyInt(n), PyStr(s).  Objects     *)
(* are records with a cls field.  Python strings are TLA+ strings.  A call *)
(* that raises is a result record whose raised field names the exception.  *)
(***************************************************************************)
EXTENDS Integers, Sequences, FiniteSets, TLC

VARIABLES
    call,       \* the last API call made by the caller: function and arguments
    ret,        \* its outcome: [raised, value]
    root,       \* the object graph the caller has assembled (a ServiceInfo, an Epg, ...)
    listener    \* the on_element calls the caller's MarshallListener has received

vars == <<call, ret, root, listener>>

(***************************************************************************)
(* Python values                                                           *)
(***************************************************************************)
None == [t |-> "None"]
PyInt(n) == [t |-> "int", v |-> n]
PyStr(s) == [t |-> "str", v |-> s]
PyBool(b) == [t |-> "bool", v |-> b]
PyList(seq) == [t |-> "list", v |-> seq]
\* a datetime and a timedelta, in whole seconds
DateTime(n) == [t |-> "datetime", v |-> n]
TimeDelta(n) == [t |-> "timedelta", v |-> n]

\* type(x): "None", "int", "str", or the class of an object
TypeOf(x) == IF "t" \in DOMAIN x THEN x.t ELSE x.cls

IsNone(x) == TypeOf(x) = "None"
IsInt(x) == TypeOf(x) = "int"
IsStr(x) == TypeOf(x) = "str"

\* Python truth value: None, 0 and "" are false, anything else is true
Truthy(x) ==
    CASE IsNone(x) -> FALSE
      [] IsInt(x)  -> x.v # 0
      [] IsStr(x)  -> x.v # ""
      [] TypeOf(x) = "bool" -> x.v
      [] OTHER     -> TRUE

Returned(v) == [raised |-> "None", value |-> v]
Raised(e) == [raised |-> e, value |-> None]

NoCall == [fn |-> "none"]

(***************************************************************************)
(* Strings                                                                 *)
(***************************************************************************)
\* the character of s at position i (1-based), "" outside the string
Ch(s, i) == IF i >= 1 /\ i <= Len(s) THEN SubSeq(s, i, i) ELSE ""

LowerHex == "0123456789abcdef"
UpperHex == "0123456789ABCDEF"

\* the character class [0-9a-fA-F]
HexChars == {Ch(LowerHex, k) : k \in 1..16} \cup {Ch(UpperHex, k) : k \in 1..16}

HexVal(c) == CHOOSE k \in 0..15 : Ch(LowerHex, k + 1) = c \/ Ch(UpperHex, k + 1) = c

\* s[i..i+n-1] are all hexadecimal digits (and lie inside s)
IsHexRun(s, i, n) == \A k \in i..(i + n - 1) : Ch(s, k) \in HexChars

IsHexString(s) == Len(s) > 0 /\ IsHexRun(s, 1, Len(s))

RECURSIVE HexToInt(_)
HexToInt(s) ==
    IF s = "" THEN 0
    ELSE 16 * HexToInt(SubSeq(s, 1, Len(s) - 1)) + HexVal(Ch(s, Len(s)))

\* int(s, 16) on a str
int16(s) == IF IsHexString(s) THEN Returned(PyInt(HexToInt(s))) ELSE Raised("ValueError")

RECURSIVE HexDigits(_)
HexDigits(n) ==
    IF n < 16 THEN Ch(LowerHex, n + 1)
    ELSE HexDigits(n \div 16) \o Ch(LowerHex, (n % 16) + 1)

RECURSIVE ZeroPad(_, _)
ZeroPad(s, width) == IF Len(s) >= width THEN s ELSE ZeroPad("0" \o s, width)

\* '{n:0<width>x}'.format(n): lower-case hex, zero-padded to at least width
FormatHex(n, width) == ZeroPad(HexDigits(n), width)

Min(S) == CHOOSE x \in S : \A y \in S : x <= y
Max(S) == CHOOSE x \in S : \A y \in S : x >= y

(***************************************************************************)
(* ContentId                                                               *)
(***************************************************************************)
\* a field given as an int or as a hex string
HexField(x) == IF IsInt(x) THEN Returned(x) ELSE int16(x.v)

\* an optional field: converted only when truthy, else stored as given
OptHexField(x) == IF Truthy(x) THEN HexField(x) ELSE Returned(x)

ContentId__init__(ecc, eid, sid, scids) ==
    LET e == HexField(ecc)
        i == HexField(eid)
        s == OptHexField(sid)
        c == OptHexField(scids)
    IN  IF \E r \in {e, i, s, c} : r.raised # "None" THEN Raised("ValueError")
        ELSE Returned([cls |-> "ContentId", ecc |-> e.value, eid |-> i.value,
                       sid |-> s.value, scids |-> c.value, xpad |-> None])

\* CONTENTID_PATTERN matched at position i: the mandatory ECC.EId part
ContentIdHead(s, i) ==
    IsHexRun(s, i, 2) /\ Ch(s, i + 2) = "." /\ IsHexRun(s, i + 3, 4)

\* the lengths n of {4,8} for which the optional group \.SId\.SCIdS matches at j
ContentIdTail(s, j) ==
    {n \in 4..8 : /\ Ch(s, j) = "."
                  /\ IsHexRun(s, j + 1, n)
                  /\ Ch(s, j + 1 + n) = "."
                  /\ IsHexRun(s, j + 2 + n, 1)}

\* pattern.search(string): the leftmost match, the optional group greedy
ContentIdSearch(s) ==
    LET starts == {i \in 1..Len(s) : ContentIdHead(s, i)}
    IN  IF starts = {} THEN [matched |-> FALSE]
        ELSE LET i == Min(starts)
                 tails == ContentIdTail(s, i + 7)
             IN  IF tails = {}
                 THEN [matched |-> TRUE,
                       g1 |-> PyStr(SubSeq(s, i, i + 1)),
                       g2 |-> PyStr(SubSeq(s, i + 3, i + 6)),
                       g4 |-> None, g5 |-> None]
                 ELSE LET n == Max(tails)
                      IN  [matched |-> TRUE,
                           g1 |-> PyStr(SubSeq(s, i, i + 1)),
                           g2 |-> PyStr(SubSeq(s, i + 3, i + 6)),
                           g4 |-> PyStr(SubSeq(s, i + 8, i + 7 + n)),
                           g5 |-> PyStr(SubSeq(s, i + 9 + n, i + 9 + n))]

ContentId_fromstring(string) ==
    LET matcher == ContentIdSearch(string)
    IN  IF ~matcher.matched THEN Raised("ValueError")
        ELSE ContentId__init__(matcher.g1, matcher.g2, matcher.g4, matcher.g5)

ContentId__str__(self) ==
    LET id == FormatHex(self.ecc.v, 2) \o "." \o FormatHex(self.eid.v, 4)
    IN  IF ~IsNone(self.sid) /\ ~IsNone(self.scids)
        THEN id \o "." \o FormatHex(self.sid.v, 4) \o "." \o FormatHex(self.scids.v, 1)
        ELSE id

(***************************************************************************)
(* Bearer                                                                  *)
(***************************************************************************)
\* re.match(TRIGGER_PATTERN, trigger): eight hex digits at the start
TriggerMatch(trigger) == IsHexRun(trigger, 1, 8)

Bearer__init__(id, trigger) ==
    LET parsed == IF IsStr(id) THEN ContentId_fromstring(id.v) ELSE Returned(id)
    IN  IF parsed.raised # "None" THEN parsed
        ELSE IF ~IsNone(trigger) /\ ~TriggerMatch(trigger.v) THEN Raised("ValueError")
        ELSE Returned([cls |-> "Bearer", id |-> parsed.value, trigger |-> trigger])

Bearer__str__(self) == ContentId__str__(self.id)

(***************************************************************************)
(* Crid                                                                    *)
(***************************************************************************)
\* the length of the longest run of characters other than "/" starting at j
NonSlashRun(s, j) ==
    Min({n \in 0..(Len(s) + 1) : Ch(s, j + n) \in {"/", ""}})

\* CRID_PATTERN matched at position i
CridMatchAt(s, i) ==
    /\ SubSeq(s, i, i + 6) = "crid://"
    /\ NonSlashRun(s, i + 7) >= 1
    /\ Ch(s, i + 7 + NonSlashRun(s, i + 7)) = "/"
    /\ NonSlashRun(s, i + 8 + NonSlashRun(s, i + 7)) >= 1

\* pattern.search(string): group 0 is the whole match, groups 1 and 2 its parts
CridSearch(s) ==
    LET starts == {i \in 1..Len(s) : i + 6 <= Len(s) /\ CridMatchAt(s, i)}
    IN  IF starts = {} THEN [matched |-> FALSE]
        ELSE LET i == Min(starts)
                 a == NonSlashRun(s, i + 7)
                 d == NonSlashRun(s, i + 8 + a)
             IN  [matched |-> TRUE,
                  g0 |-> SubSeq(s, i, i + 7 + a + d),
                  g1 |-> SubSeq(s, i + 7, i + 6 + a),
                  g2 |-> SubSeq(s, i + 8 + a, i + 7 + a + d)]

Crid__init__(authority, data) == [cls |-> "Crid", authority |-> authority, data |-> data]

Crid_fromstring(string) ==
    LET matcher == CridSearch(string)
    IN  IF ~matcher.matched THEN Raised("AttributeError")
        ELSE Returned(Crid__init__(matcher.g0, matcher.g1))

Crid__str__(self) == "crid://" \o self.authority \o "/" \o self.data

(***************************************************************************)
(* Multimedia                                                              *)
(***************************************************************************)
LOGO_UNRESTRICTED == "logo_unrestricted"
LOGO_MONO_SQUARE == "logo_mono_square"
LOGO_COLOUR_SQUARE == "logo_colour_square"
LOGO_MONO_RECTANGLE == "logo_mono_rectangle"
LOGO_COLOUR_RECTANGLE == "logo_colour_rectangle"

MultimediaTypes ==
    {LOGO_UNRESTRICTED, LOGO_MONO_SQUARE, LOGO_COLOUR_SQUARE,
     LOGO_MONO_RECTANGLE, LOGO_COLOUR_RECTANGLE}

Multimedia__init__(url, type, height, width) ==
    IF type = LOGO_UNRESTRICTED /\ (~Truthy(height) \/ ~Truthy(width))
    THEN Raised("ValueError")
    ELSE IF type # LOGO_UNRESTRICTED /\ (Truthy(height) \/ Truthy(width))
    THEN Raised("ValueError")
    ELSE Returned([cls |-> "Multimedia", url |-> url, type |-> type,
                   mimetype |-> None, height |-> height, width |-> width])

(***************************************************************************)
(* Times, locations, programmes, schedules                                 *)
(***************************************************************************)
Time__init__(billed_time, billed_duration) ==
    [cls |-> "Time", billed_time |-> billed_time, billed_duration |-> billed_duration,
     actual_time |-> None, actual_duration |-> None]

RelativeTime__init__(billed_offset, billed_duration) ==
    [cls |-> "RelativeTime", billed_offset |-> billed_offset,
     billed_duration |-> billed_duration,
     actual_offset |-> None, actual_duration |-> None]

\* str(x) of a Bearer or a ContentId
IdStr(x) == IF TypeOf(x) = "Bearer" THEN Bearer__str__(x) ELSE ContentId__str__(x)

\* Location(times, bearers): every bearer that is not a ContentId is re-parsed
\* from its string form
Location__init__(times, bearers) ==
    [cls |-> "Location",
     times |-> IF IsNone(times) THEN <<>> ELSE times.v,
     bearers |-> IF IsNone(bearers) THEN <<>>
                 ELSE [k \in 1..Len(bearers.v) |->
                         IF TypeOf(bearers.v[k]) = "ContentId" THEN bearers.v[k]
                         ELSE ContentId_fromstring(IdStr(bearers.v[k])).value]]

Programme__init__(shortcrid, crid, bitrate, onair, recommendation, version) ==
    [cls |-> "Programme", shortcrid |-> shortcrid, crid |-> crid, version |-> version,
     bitrate |-> bitrate, onair |-> onair, recommendation |-> recommendation,
     names |-> <<>>, locations |-> <<>>, media |-> <<>>, genres |-> <<>>,
     keywords |-> <<>>, memberships |-> <<>>, links |-> <<>>, events |-> <<>>]

Schedule__init__(created, version, originator) ==
    [cls |-> "Schedule", created |-> created, version |-> version,
     originator |-> originator, programmes |-> <<>>]

Scope__init__(start, end, services) ==
    [cls |-> "Scope", start |-> start, end |-> end, services |-> services]

Epg__init__(schedule, type) ==
    [cls |-> "Epg", type |-> type,
     schedule |-> IF IsNone(schedule) THEN Schedule__init__(DateTime(0), PyInt(1), None)
                  ELSE schedule]

(***************************************************************************)
(* Schedule.get_scope                                                      *)
(***************************************************************************)
\* ContentId.__eq__: equality of the string forms
ContentId__eq__(self, other) == ContentId__str__(self) = IdStr(other)

\* x in services
InServices(x, services) == \E k \in 1..Len(services) : ContentId__eq__(x, services[k])

\* ScopeTime with relative times taken as instants instead of skipped
ScopeTimeNoSkip(acc, time) ==
    LET at == IF TypeOf(time) = "RelativeTime" THEN DateTime(time.billed_offset.v)
              ELSE time.billed_time
        stop == DateTime(at.v + time.billed_duration.v)
    IN  [acc EXCEPT
           !.start = IF IsNone(@) \/ @.v > at.v THEN at ELSE @,
           !.end = IF IsNone(@) \/ @.v < stop.v THEN stop ELSE @]

\* ScopeTime with the comparison of the end reversed
ScopeTimeEndReversed(acc, time) ==
    IF TypeOf(time) = "RelativeTime" THEN acc
    ELSE LET stop == DateTime(time.billed_time.v + time.billed_duration.v)
         IN  [acc EXCEPT
                !.start = IF IsNone(@) \/ @.v > time.billed_time.v THEN time.billed_time ELSE @,
                !.end = IF IsNone(@) \/ @.v > stop.v THEN stop ELSE @]

\* the body of "for time in location.times", on acc = [start, end, services]
ScopeTime(acc, time) ==
    IF TypeOf(time) = "RelativeTime" THEN acc
    ELSE LET stop == DateTime(time.billed_time.v + time.billed_duration.v)
         IN  [acc EXCEPT
                !.start = IF IsNone(@) \/ @.v > time.billed_time.v THEN time.billed_time ELSE @,
                !.end = IF IsNone(@) \/ @.v < stop.v THEN stop ELSE @]

\* ScopeBearer with a Bearer's identifier appended without looking it up
ScopeBearerNoLookup(acc, bearer) ==
    IF TypeOf(bearer) = "Bearer"
    THEN [acc EXCEPT !.services = Append(@, bearer.id)]
    ELSE IF TypeOf(bearer) = "ContentId" /\ ~InServices(bearer, acc.services)
    THEN [acc EXCEPT !.services = Append(@, bearer)]
    ELSE acc

\* the body of "for bearer in location.bearers"
ScopeBearer(acc, bearer) ==
    IF TypeOf(bearer) = "Bearer" /\ ~InServices(bearer.id, acc.services)
    THEN [acc EXCEPT !.services = Append(@, bearer.id)]
    ELSE IF TypeOf(bearer) = "ContentId" /\ ~InServices(bearer, acc.services)
    THEN [acc EXCEPT !.services = Append(@, bearer)]
    ELSE acc

RECURSIVE ScopeTimes(_, _)
ScopeTimes(acc, times) ==
    IF times = <<>> THEN acc ELSE ScopeTimes(ScopeTime(acc, Head(times)), Tail(times))

RECURSIVE ScopeBearers(_, _)
ScopeBearers(acc, bearers) ==
    IF bearers = <<>> THEN acc
    ELSE ScopeBearers(ScopeBearer(acc, Head(bearers)), Tail(bearers))

\* the body of "for location in programme.locations": the times, then the bearers
ScopeLocation(acc, location) ==
    ScopeBearers(ScopeTimes(acc, location.times), location.bearers)

RECURSIVE ScopeLocations(_, _)
ScopeLocations(acc, locations) ==
    IF locations = <<>> THEN acc
    ELSE ScopeLocations(ScopeLocation(acc, Head(locations)), Tail(locations))

RECURSIVE ScopeProgrammes(_, _)
ScopeProgrammes(acc, programmes) ==
    IF programmes = <<>> THEN acc
    ELSE ScopeProgrammes(ScopeLocations(acc, Head(programmes).locations), Tail(programmes))

\* the end of get_scope: None unless a start and an end were found
ScopeResult(acc) ==
    IF IsNone(acc.start) \/ IsNone(acc.end) THEN None
    ELSE Scope__init__(acc.start, acc.end, acc.services)

Schedule_get_scope(self) ==
    ScopeResult(ScopeProgrammes([start |-> None, end |-> None, services |-> <<>>],
                                self.programmes))

(***************************************************************************)
(* Text, genre, membership, link, programme event                          *)
(***************************************************************************)
\* Text.__init__ by way of ShortName, MediumName, LongName, ShortDescription,
\* LongDescription: the text is stored whatever its length
Text__init__(cls, text, max_length) ==
    [cls |-> cls, text |-> text, max_length |-> max_length]

ShortName__init__(text) == Text__init__("ShortName", text, 8)
MediumName__init__(text) == Text__init__("MediumName", text, 16)
LongName__init__(text) == Text__init__("LongName", text, 128)
ShortDescription__init__(text) == Text__init__("ShortDescription", text, 180)
LongDescription__init__(text) == Text__init__("LongDescription", text, 1800)

MediumName_max_length == 16
ShortName_max_length == 8

\* name[0:stop]
SliceTo(name, stop) == SubSeq(name, 1, Min({stop, Len(name)}))

\* the body of the loop of suggest_names: the names appended for one string
SuggestName(name) ==
    IF Len(name) > MediumName_max_length
    THEN <<MediumName__init__(SliceTo(name, MediumName_max_length - 1)),
           LongName__init__(name)>>
    ELSE IF Len(name) > ShortName_max_length
    THEN <<ShortName__init__(SliceTo(name, ShortName_max_length - 1)),
           MediumName__init__(name),
           LongName__init__(name)>>
    ELSE <<ShortName__init__(name), MediumName__init__(name), LongName__init__(name)>>

RECURSIVE suggest_names(_)
suggest_names(names) ==
    IF names = <<>> THEN <<>>
    ELSE SuggestName(Head(names)) \o suggest_names(Tail(names))

Genre__init__(href, name) == [cls |-> "Genre", href |-> href, name |-> name]

Membership__init__(shortcrid, crid, index) ==
    [cls |-> "Membership", shortcrid |-> shortcrid, crid |-> crid, index |-> index]

Link__init__(url, mimetype, description, expiry) ==
    [cls |-> "Link", url |-> url, mimetype |-> mimetype,
     description |-> description, expiry |-> expiry]

ProgrammeEvent__init__(shortcrid, originator, crid, version, bitrate, onair, recommendation) ==
    [cls |-> "ProgrammeEvent", shortcrid |-> shortcrid, originator |-> originator,
     crid |-> crid, version |-> version, bitrate |-> bitrate, onair |-> onair,
     recommendation |-> recommendation,
     names |-> <<>>, locations |-> <<>>, media |-> <<>>, genres |-> <<>>,
     keywords |-> <<>>, memberships |-> <<>>, links |-> <<>>]

(***************************************************************************)
(* ServiceInfo, Ensemble, Service                                          *)
(***************************************************************************)
Ensemble__init__(id, version) ==
    [cls |-> "Ensemble", id |-> id, names |-> <<>>, media |-> <<>>, keywords |-> <<>>,
     links |-> <<>>, services |-> <<>>, frequencies |-> <<>>, ca |-> None,
     version |-> version]

\* the identifier is kept in the list ids; there is no attribute id
Service__init__(id, bitrate, type, format, version) ==
    [cls |-> "Service", ids |-> <<id>>, bitrate |-> bitrate, type |-> type,
     format |-> format, version |-> version,
     names |-> <<>>, media |-> <<>>, genres |-> <<>>, links |-> <<>>,
     simulcasts |-> <<>>, keywords |-> <<>>]

ServiceInfo__init__(created, version, originator, provider, type) ==
    [cls |-> "ServiceInfo", created |-> created, version |-> version,
     originator |-> originator, provider |-> provider, type |-> type,
     ensembles |-> <<>>]

(***************************************************************************)
(* XML: the document tree                                                  *)
(***************************************************************************)
SCHEDULE_NS == "http://www.worlddab.org/schemas/epgSchedule/14"
TYPES_NS == "http://www.worlddab.org/schemas/epgDataTypes/14"
XSI_NS == "http://www.w3.org/2001/XMLSchema-instance"

createElement(tag) == [tag |-> tag, attrs |-> <<>>, children |-> <<>>]
createTextNode(data) == [node |-> "text", data |-> data]
createCDATASection(data) == [node |-> "cdata", data |-> data]
setAttribute(element, name, value) == [element EXCEPT !.attrs = (name :> value) @@ @]
appendChild(element, child) == [element EXCEPT !.children = Append(@, child)]

\* element.setAttribute(name, value) under "if cond:"
SetIf(cond, element, name, value) ==
    IF cond THEN setAttribute(element, name, value) ELSE element

RECURSIVE appendChildren(_, _)
appendChildren(element, children) ==
    IF children = <<>> THEN element
    ELSE appendChildren(appendChild(element, Head(children)), Tail(children))

IsElement(node) == "tag" \in DOMAIN node

\* the children of element that are elements named tag
ChildrenNamed(element, tag) ==
    SelectSeq(element.children, LAMBDA c : IsElement(c) /\ c.tag = tag)

\* the namespace declarations put on a root element
Namespaces(element) ==
    setAttribute(setAttribute(setAttribute(setAttribute(setAttribute(element,
        "xmlns", SCHEDULE_NS),
        "xmlns:epg", TYPES_NS),
        "xmlns:xsi", XSI_NS),
        "xsi:schemaLocation", SCHEDULE_NS \o " epgSchedule_14.xsd"),
        "xml:lang", "en")

\* doc.toxml('UTF-8'): the serialized document, kept as its tree
toxml(documentElement) == [cls |-> "Document", documentElement |-> documentElement]

\* obj.name: AttributeError when the object has no such attribute
GetAttr(obj, name) ==
    IF name \in DOMAIN obj THEN Returned(obj[name]) ELSE Raised("AttributeError")

TwoDigits(n) == IF n < 10 THEN "0" \o ToString(n) ELSE ToString(n)

\* datetime.isoformat() of an instant n seconds (n < 3600) into 1970-01-01
IsoFormat(n) == "1970-01-01T00:" \o TwoDigits(n \div 60) \o ":" \o TwoDigits(n % 60)

\* x.isoformat(): None has no such method
isoformat(x) ==
    IF TypeOf(x) = "datetime" THEN Returned(IsoFormat(x.v)) ELSE Raised("AttributeError")

\* get_iso_period without its last line, the "0S" of an empty time part
get_iso_periodNoZero(duration) ==
    LET d == IF IsInt(duration) THEN TimeDelta(duration.v) ELSE duration
        days == d.v \div 86400
        secs == d.v % 86400
        hours == secs \div (60 * 60)
        minutes == (secs - hours * 60 * 60) \div 60
        seconds == secs - hours * 60 * 60 - minutes * 60
    IN  "P" \o (IF days > 0 THEN ToString(days) \o "D" ELSE "")
            \o "T"
            \o (IF hours > 0 THEN ToString(hours) \o "H" ELSE "")
            \o (IF minutes > 0 THEN ToString(minutes) \o "M" ELSE "")
            \o (IF seconds > 0 THEN ToString(seconds) \o "S" ELSE "")

\* a timedelta of n seconds has days = n \div 86400 and seconds = n % 86400
get_iso_period(duration) ==
    LET d == IF IsInt(duration) THEN TimeDelta(duration.v) ELSE duration
        days == d.v \div 86400
        secs == d.v % 86400
        hours == secs \div (60 * 60)
        minutes == (secs - hours * 60 * 60) \div 60
        seconds == secs - hours * 60 * 60 - minutes * 60
    IN  "P" \o (IF days > 0 THEN ToString(days) \o "D" ELSE "")
            \o "T"
            \o (IF hours > 0 THEN ToString(hours) \o "H" ELSE "")
            \o (IF minutes > 0 THEN ToString(minutes) \o "M" ELSE "")
            \o (IF seconds > 0 THEN ToString(seconds) \o "S" ELSE "")
            \o (IF hours = 0 /\ minutes = 0 /\ seconds = 0 THEN "0S" ELSE "")

(***************************************************************************)
(* XML: the element builders                                               *)
(***************************************************************************)
MapSeq(Op(_), seq) == [k \in 1..Len(seq) |-> Op(seq[k])]

build_name(name) ==
    LET tag == CASE TypeOf(name) = "ShortName"  -> "epg:shortName"
                 [] TypeOf(name) = "MediumName" -> "epg:mediumName"
                 [] TypeOf(name) = "LongName"   -> "epg:longName"
    IN  appendChild(createElement(tag), createTextNode(name.text))

\* the element of one entry of location.times
build_time(time) ==
    IF TypeOf(time) = "Time"
    THEN setAttribute(setAttribute(createElement("epg:time"),
             "time", IsoFormat(time.billed_time.v)),
             "duration", get_iso_period(time.billed_duration))
    ELSE setAttribute(setAttribute(createElement("epg:relativeTime"),
             "time", get_iso_period(time.billed_offset)),
             "duration", get_iso_period(time.billed_duration))

\* the element of one entry of location.bearers
build_bearer(bearer) == setAttribute(createElement("epg:bearer"), "id", IdStr(bearer))

\* build_location with the two loops exchanged: the bearers, then the times
build_locationBearersFirst(location) ==
    appendChildren(appendChildren(createElement("epg:location"),
        MapSeq(build_bearer, location.bearers)),
        MapSeq(build_time, location.times))

build_location(location) ==
    appendChildren(appendChildren(createElement("epg:location"),
        MapSeq(build_time, location.times)),
        MapSeq(build_bearer, location.bearers))

build_mediagroup(media, namespace) ==
    LET group == createElement((IF IsNone(namespace) THEN "" ELSE namespace.v \o ":")
                               \o "mediaDescription")
    IN  CASE TypeOf(media) = "ShortDescription" ->
               appendChild(group, appendChild(createElement("epg:shortDescription"),
                                              createCDATASection(media.text)))
          [] TypeOf(media) = "LongDescription" ->
               appendChild(group, appendChild(createElement("epg:longDescription"),
                                              createCDATASection(media.text)))
          [] TypeOf(media) = "Multimedia" ->
               LET e == setAttribute(setAttribute(createElement("epg:multimedia"),
                            "url", media.url), "type", media.type)
               IN  appendChild(group,
                       IF media.type = LOGO_UNRESTRICTED
                       THEN setAttribute(setAttribute(e,
                                "height", ToString(media.height.v)),
                                "width", ToString(media.width.v))
                       ELSE e)
          [] OTHER -> group

build_epg_mediagroup(media) == build_mediagroup(media, PyStr("epg"))
build_plain_mediagroup(media) == build_mediagroup(media, None)

build_genre(genre) ==
    LET e == setAttribute(createElement("epg:genre"), "href", genre.href)
    IN  IF ~IsNone(genre.name)
        THEN appendChild(e, appendChild(createElement("epg:name"),
                                        createCDATASection(genre.name.v)))
        ELSE e

build_membership(membership) ==
    SetIf(~IsNone(membership.index),
        SetIf(~IsNone(membership.crid),
            setAttribute(createElement("memberOf"), "shortId", ToString(membership.shortcrid.v)),
            "crid", membership.crid),
        "index", IF IsNone(membership.index) THEN "" ELSE ToString(membership.index.v))

build_link(link) ==
    SetIf(~IsNone(link.expiry),
        SetIf(~IsNone(link.mimetype),
            SetIf(~IsNone(link.description),
                setAttribute(createElement("link"), "url", link.url),
                "description", link.description),
            "mimeType", link.mimetype),
        "expiryTime", IF IsNone(link.expiry) THEN "" ELSE IsoFormat(link.expiry.v))

\* str() of an int, a str or a Crid
Str(x) ==
    CASE IsInt(x) -> ToString(x.v)
      [] IsStr(x) -> x.v
      [] TypeOf(x) = "Crid" -> Crid__str__(x)

\* x is not False
IsNotFalse(x) == ~(TypeOf(x) = "bool" /\ x.v = FALSE)

build_programme_event(event) ==
    LET e0 == createElement("epg:programmeEvent")
        e1 == SetIf(~IsNone(event.shortcrid), e0, "shortId",
                    IF IsNone(event.shortcrid) THEN "" ELSE Str(event.shortcrid))
        e2 == SetIf(~IsNone(event.crid), e1, "id",
                    IF IsNone(event.crid) THEN "" ELSE Str(event.crid))
        e3 == SetIf(~IsNone(event.version), e2, "version",
                    IF IsNone(event.version) THEN "" ELSE Str(event.version))
        e4 == SetIf(IsNotFalse(event.recommendation), e3, "recommendation", "yes")
        \* "not event.onair is not None" is "event.onair is None"
        e5 == SetIf(~(~IsNone(event.onair)), e4, "broadcast", "off-air")
        e6 == SetIf(~IsNone(event.bitrate), e5, "bitrate",
                    IF IsNone(event.bitrate) THEN "" ELSE Str(event.bitrate))
    IN  appendChildren(appendChildren(appendChildren(appendChildren(appendChildren(
        appendChildren(e6,
            MapSeq(build_name, event.names)),
            MapSeq(build_location, event.locations)),
            MapSeq(build_epg_mediagroup, event.media)),
            MapSeq(build_genre, event.genres)),
            MapSeq(build_membership, event.memberships)),
            MapSeq(build_link, event.links))

(***************************************************************************)
(* XML: marshall_epg                                                       *)
(***************************************************************************)
build_service_scope(service) ==
    setAttribute(createElement("serviceScope"), "id", IdStr(service))

\* the scope element of marshall_epg
build_scope(scope) ==
    appendChildren(
        setAttribute(setAttribute(createElement("scope"),
            "startTime", IsoFormat(scope.start.v)),
            "stopTime", IsoFormat(scope.end.v)),
        MapSeq(build_service_scope, scope.services))

\* build_programme with the recommendation tested like the version: is not None
build_programmeRecommendationNotNone(programme) ==
    LET e0 == setAttribute(createElement("programme"), "shortId", Str(programme.shortcrid))
        e1 == SetIf(~IsNone(programme.crid), e0, "id",
                    IF IsNone(programme.crid) THEN "" ELSE Str(programme.crid))
        e2 == SetIf(~IsNone(programme.version), e1, "version",
                    IF IsNone(programme.version) THEN "" ELSE Str(programme.version))
        e3 == SetIf(~IsNone(programme.recommendation), e2, "recommendation", "yes")
        e4 == SetIf(~Truthy(programme.onair), e3, "broadcast", "off-air")
        e5 == SetIf(~IsNone(programme.bitrate), e4, "bitrate",
                    IF IsNone(programme.bitrate) THEN "" ELSE Str(programme.bitrate))
    IN  appendChildren(appendChildren(appendChildren(appendChildren(appendChildren(
        appendChildren(appendChildren(e5,
            MapSeq(build_name, programme.names)),
            MapSeq(build_location, programme.locations)),
            MapSeq(build_epg_mediagroup, programme.media)),
            MapSeq(build_genre, programme.genres)),
            MapSeq(build_membership, programme.memberships)),
            MapSeq(build_link, programme.links)),
            MapSeq(build_programme_event, programme.events))

\* the programme element of marshall_epg
build_programme(programme) ==
    LET e0 == setAttribute(createElement("programme"), "shortId", Str(programme.shortcrid))
        e1 == SetIf(~IsNone(programme.crid), e0, "id",
                    IF IsNone(programme.crid) THEN "" ELSE Str(programme.crid))
        e2 == SetIf(~IsNone(programme.version), e1, "version",
                    IF IsNone(programme.version) THEN "" ELSE Str(programme.version))
        e3 == SetIf(Truthy(programme.recommendation), e2, "recommendation", "yes")
        e4 == SetIf(~Truthy(programme.onair), e3, "broadcast", "off-air")
        e5 == SetIf(~IsNone(programme.bitrate), e4, "bitrate",
                    IF IsNone(programme.bitrate) THEN "" ELSE Str(programme.bitrate))
    IN  appendChildren(appendChildren(appendChildren(appendChildren(appendChildren(
        appendChildren(appendChildren(e5,
            MapSeq(build_name, programme.names)),
            MapSeq(build_location, programme.locations)),
            MapSeq(build_epg_mediagroup, programme.media)),
            MapSeq(build_genre, programme.genres)),
            MapSeq(build_membership, programme.memberships)),
            MapSeq(build_link, programme.links)),
            MapSeq(build_programme_event, programme.events))

\* the schedule element of marshall_epg: its attributes, the scope if there is
\* one, the programmes
build_schedule(schedule) ==
    LET e0 == setAttribute(setAttribute(createElement("schedule"),
                  "version", Str(schedule.version)),
                  "creationTime", IsoFormat(schedule.created.v))
        e1 == SetIf(~IsNone(schedule.originator), e0, "originator",
                    IF IsNone(schedule.originator) THEN "" ELSE schedule.originator.v)
        scope == Schedule_get_scope(schedule)
        e2 == IF ~IsNone(scope) THEN appendChild(e1, build_scope(scope)) ELSE e1
    IN  appendChildren(e2, MapSeq(build_programme, schedule.programmes))

marshall_epg(epg) ==
    LET epg_element == setAttribute(Namespaces(createElement("epg")), "system", epg.type)
    IN  Returned(toxml(appendChild(epg_element, build_schedule(epg.schedule))))

(***************************************************************************)
(* XML: marshall_serviceinfo                                               *)
(***************************************************************************)
\* the frequency element: the first one of an ensemble is primary
build_frequency(ensemble_element, frequency) ==
    setAttribute(setAttribute(createElement("frequency"),
        "type", IF Len(ChildrenNamed(ensemble_element, "frequency")) = 0
                THEN "primary" ELSE "secondary"),
        "kHz", ToString(frequency.v))

RECURSIVE appendFrequencies(_, _)
appendFrequencies(ensemble_element, frequencies) ==
    IF frequencies = <<>> THEN ensemble_element
    ELSE appendFrequencies(
             appendChild(ensemble_element, build_frequency(ensemble_element, Head(frequencies))),
             Tail(frequencies))

\* the service element as first built, with its version and format
build_service_start(service) ==
    setAttribute(SetIf(service.version.v > 1, createElement("service"),
                       "version", ToString(service.version.v)),
                 "format", service.format)

\* the service element: reading service.id raises, a Service has only ids
build_service(service) ==
    LET e1 == build_service_start(service)
        id == GetAttr(service, "id")
    IN  IF id.raised # "None" THEN id
        ELSE LET e2 == appendChild(e1, setAttribute(createElement("serviceID"),
                                                    "id", IdStr(id.value)))
                 e3 == SetIf(~IsNone(service.bitrate), e2, "bitrate",
                             IF IsNone(service.bitrate) THEN "" ELSE Str(service.bitrate))
             IN  Returned(
                    appendChildren(appendChildren(appendChildren(appendChildren(e3,
                        MapSeq(build_name, service.names)),
                        MapSeq(build_plain_mediagroup, service.media)),
                        MapSeq(build_genre, service.genres)),
                        MapSeq(build_link, service.links)))

\* "for service in ensemble.services": the first service that raises ends the loop
RECURSIVE appendServices(_, _)
appendServices(ensemble_element, services) ==
    IF services = <<>> THEN Returned(ensemble_element)
    ELSE LET r == build_service(Head(services))
         IN  IF r.raised # "None" THEN r
             ELSE appendServices(appendChild(ensemble_element, r.value), Tail(services))

\* build_ensemble with the version written whatever its value
build_ensembleAnyVersion(ensemble) ==
    LET e0 == setAttribute(createElement("ensemble"), "id", IdStr(ensemble.id))
        e1 == setAttribute(e0, "version", ToString(ensemble.version.v))
        e2 == appendChildren(e1, MapSeq(build_name, ensemble.names))
    IN  appendServices(appendFrequencies(e2, ensemble.frequencies), ensemble.services)

\* the ensemble element
build_ensemble(ensemble) ==
    LET e0 == setAttribute(createElement("ensemble"), "id", IdStr(ensemble.id))
        e1 == SetIf(ensemble.version.v > 1, e0, "version", ToString(ensemble.version.v))
        e2 == appendChildren(e1, MapSeq(build_name, ensemble.names))
    IN  appendServices(appendFrequencies(e2, ensemble.frequencies), ensemble.services)

\* "for ensemble in info.ensembles"
RECURSIVE appendEnsembles(_, _)
appendEnsembles(info_element, ensembles) ==
    IF ensembles = <<>> THEN Returned(info_element)
    ELSE LET r == build_ensemble(Head(ensembles))
         IN  IF r.raised # "None" THEN r
             ELSE appendEnsembles(appendChild(info_element, r.value), Tail(ensembles))

marshall_serviceinfo(info) ==
    LET e0 == SetIf(info.version.v > 1, createElement("serviceInformation"),
                    "version", ToString(info.version.v))
        created == isoformat(info.created)
    IN  IF created.raised # "None" THEN created
        ELSE LET e1 == setAttribute(e0, "creationTime", created.value)
                 e2 == SetIf(~IsNone(info.originator), e1, "originator",
                             IF IsNone(info.originator) THEN "" ELSE info.originator.v)
                 e3 == SetIf(~IsNone(info.provider), e2, "serviceProvider",
                             IF IsNone(info.provider) THEN "" ELSE info.provider.v)
                 e4 == Namespaces(setAttribute(e3, "system", info.type))
                 r == appendEnsembles(e4, info.ensembles)
             IN  IF r.raised # "None" THEN r ELSE Returned(toxml(r.value))

(***************************************************************************)
(* XML: marshall                                                           *)
(***************************************************************************)
\* marshall without its final else: an unrecognized root falls through
marshallNoElse(obj) ==
    IF TypeOf(obj) = "ServiceInfo" THEN marshall_serviceinfo(obj)
    ELSE IF TypeOf(obj) = "Epg" THEN marshall_epg(obj)
    ELSE Returned(None)

marshall(obj) ==
    IF TypeOf(obj) = "ServiceInfo" THEN marshall_serviceinfo(obj)
    ELSE IF TypeOf(obj) = "Epg" THEN marshall_epg(obj)
    ELSE Raised("ValueError")

(***************************************************************************)
(* XML: the calls of listener.on_element                                   *)
(***************************************************************************)
\* one call listener.on_element(doc, object, element): the class of the
\* object, the element as it is at the call, and whether it has been appended
\* to a parent by then
OnElement(object, element, attached) ==
    [object |-> TypeOf(object), element |-> element, attached |-> attached]

RECURSIVE Flatten(_)
Flatten(seqs) == IF seqs = <<>> THEN <<>> ELSE Head(seqs) \o Flatten(Tail(seqs))

\* build_location: each time and each bearer is appended to the location
\* element, then filled, then passed to the listener
listen_time(time) == OnElement(time, build_time(time), TRUE)
listen_bearer(bearer) == OnElement(bearer, build_bearer(bearer), TRUE)

listen_location(location) ==
    MapSeq(listen_time, location.times) \o MapSeq(listen_bearer, location.bearers)

\* build_programme_event: the listener is handed on to build_location only
listen_programme_event(event) == Flatten(MapSeq(listen_location, event.locations))

\* the children of a programme: built, passed to the listener, then appended
listen_name(name) == <<OnElement(name, build_name(name), FALSE)>>
listen_programme_location(location) ==
    listen_location(location) \o <<OnElement(location, build_location(location), FALSE)>>
listen_media(media) == <<OnElement(media, build_epg_mediagroup(media), FALSE)>>
listen_genre(genre) == <<OnElement(genre, build_genre(genre), FALSE)>>
listen_membership(membership) ==
    <<OnElement(membership, build_membership(membership), FALSE)>>
listen_link(link) == <<OnElement(link, build_link(link), FALSE)>>
listen_event(event) ==
    listen_programme_event(event)
        \o <<OnElement(event, build_programme_event(event), FALSE)>>

\* the programme element is appended to the schedule element before it is
\* passed to the listener
listen_programme(programme) ==
    Flatten(MapSeq(listen_name, programme.names))
        \o Flatten(MapSeq(listen_programme_location, programme.locations))
        \o Flatten(MapSeq(listen_media, programme.media))
        \o Flatten(MapSeq(listen_genre, programme.genres))
        \o Flatten(MapSeq(listen_membership, programme.memberships))
        \o Flatten(MapSeq(listen_link, programme.links))
        \o Flatten(MapSeq(listen_event, programme.events))
        \o <<OnElement(programme, build_programme(programme), TRUE)>>

\* a serviceScope element is appended to the scope element before the call
listen_service_scope(service) == OnElement(service, build_service_scope(service), TRUE)

listen_scope(scope) ==
    IF IsNone(scope) THEN <<>>
    ELSE MapSeq(listen_service_scope, scope.services)
             \o <<OnElement(scope, build_scope(scope), FALSE)>>

\* marshall_epg: the scope, the programmes, at last the root element, which
\* was appended to the document when created
listen_epg(epg) ==
    listen_scope(Schedule_get_scope(epg.schedule))
        \o Flatten(MapSeq(listen_programme, epg.schedule.programmes))
        \o <<OnElement(epg, marshall_epg(epg).value.documentElement, TRUE)>>

\* "for ensemble in info.ensembles": an ensemble whose element was built is
\* passed to the listener; the first that raises ends the loop
RECURSIVE listen_ensembles(_)
listen_ensembles(ensembles) ==
    IF ensembles = <<>> THEN <<>>
    ELSE LET r == build_ensemble(Head(ensembles))
         IN  IF r.raised # "None" THEN <<>>
             ELSE <<OnElement(Head(ensembles), r.value, FALSE)>>
                      \o listen_ensembles(Tail(ensembles))

\* marshall_serviceinfo: nothing if info.created.isoformat() raises; the root
\* element, appended to the document when created, only if nothing raised
listen_serviceinfo(info) ==
    LET doc == marshall_serviceinfo(info)
    IN  IF isoformat(info.created).raised # "None" THEN <<>>
        ELSE listen_ensembles(info.ensembles)
                 \o (IF doc.raised # "None" THEN <<>>
                     ELSE <<OnElement(info, doc.value.documentElement, TRUE)>>)

\* the calls received during marshall(obj, listener)
on_element_calls(obj) ==
    IF TypeOf(obj) = "ServiceInfo" THEN listen_serviceinfo(obj)
    ELSE IF TypeOf(obj) = "Epg" THEN listen_epg(obj)
    ELSE <<>>

(***************************************************************************)
(* The caller: construction of identifiers and values                      *)
(***************************************************************************)
\* junk characters a caller may put around an identifier
MaxPad == 1
\* the longest run of hex digits a caller passes as a trigger
MaxTrigger == 9
\* the largest height or width a caller passes
MaxDim == 2

RECURSIVE Repeat(_, _)
Repeat(c, n) == IF n = 0 THEN "" ELSE c \o Repeat(c, n - 1)

Pads == {Repeat(c, n) : c \in {"x", "0", "."}, n \in 0..MaxPad}

EccStrings == {"e1", "00", "0A"}
EidStrings == {"ce15", "0001", "C0de"}
\* service ids of 3 to 9 digits; the values stay below 2^31
SidStrings == {"221", "c221", "0001", "C221", "c2215", "10000001", "0000c221", "012345678"}
ScidsStrings == {"0", "a", "A"}

ContentIdTails ==
    {""} \cup {"." \o sid : sid \in SidStrings}
         \cup {"." \o sid \o "." \o scids : sid \in SidStrings, scids \in ScidsStrings}

ContentIdStrings ==
    {p \o ecc \o "." \o eid \o t \o q :
        p \in Pads, ecc \in EccStrings, eid \in EidStrings, t \in ContentIdTails, q \in Pads}
    \cup {"", "e1", "e1.ce1", "e1ce15", "c221.0"}

\* arguments of a direct ContentId(ecc, eid, sid, scids) call
EccArgs == {PyInt(225), PyStr("e1")}
EidArgs == {PyInt(52757), PyStr("ce15"), PyStr("zz")}
SidArgs == {None, PyInt(0), PyInt(49697), PyStr("c221"), PyStr("")}
ScidsArgs == {None, PyInt(0), PyInt(1), PyStr("0")}

TriggerStrings ==
    {p \o Repeat(c, n) \o q :
        p \in {"", "g", " "}, c \in {"0", "a", "F"}, n \in 0..MaxTrigger, q \in {"", "g", "-"}}
    \cup {"0123abCD", "0123abCDe", "0123abC", "0123abCD\n"}

BearerIdArgs ==
    {ContentId__init__(PyInt(225), PyInt(52757), PyInt(49697), PyInt(0)).value,
     PyStr("e1.ce15.c221.0"), PyStr("e1.ce15"), PyStr("c221.0")}

DimArgs == {None} \cup {PyInt(n) : n \in 0..MaxDim}

CridAuthorities == {"a", "bbc.co.uk", "crid:"}
CridData == {"1", "b00abc", "a"}
CridStrings ==
    {p \o "crid://" \o a \o "/" \o d \o q :
        p \in {"", "x", "/"}, a \in CridAuthorities \cup {""},
        d \in CridData \cup {""}, q \in {"", "/x", "?"}}
    \cup {"", "crid:/a/1", "a/1"}

\* the calls a caller makes on the identifier and value types
IdentCalls ==
    {[fn |-> "ContentId.fromstring", string |-> s] : s \in ContentIdStrings}
    \cup {[fn |-> "ContentId", ecc |-> e, eid |-> i, sid |-> s, scids |-> c] :
            e \in EccArgs, i \in EidArgs, s \in SidArgs, c \in ScidsArgs}
    \cup {[fn |-> "Bearer", id |-> i, trigger |-> t] :
            i \in BearerIdArgs, t \in {None} \cup {PyStr(x) : x \in TriggerStrings}}
    \cup {[fn |-> "Crid.fromstring", string |-> s] : s \in CridStrings}
    \cup {[fn |-> "Multimedia", type |-> t, height |-> h, width |-> w] :
            t \in MultimediaTypes, h \in DimArgs, w \in DimArgs}

\* a call that has not run yet
Pending == [raised |-> "pending", value |-> None]

CallContentIdFromString ==
    /\ call.fn = "ContentId.fromstring"
    /\ ret = Pending
    /\ ret' = ContentId_fromstring(call.string)
    /\ UNCHANGED <<call, root, listener>>

CallContentId ==
    /\ call.fn = "ContentId"
    /\ ret = Pending
    /\ ret' = ContentId__init__(call.ecc, call.eid, call.sid, call.scids)
    /\ UNCHANGED <<call, root, listener>>

CallBearer ==
    /\ call.fn = "Bearer"
    /\ ret = Pending
    /\ ret' = Bearer__init__(call.id, call.trigger)
    /\ UNCHANGED <<call, root, listener>>

CallCridFromString ==
    /\ call.fn = "Crid.fromstring"
    /\ ret = Pending
    /\ ret' = Crid_fromstring(call.string)
    /\ UNCHANGED <<call, root, listener>>

CallMultimedia ==
    /\ call.fn = "Multimedia"
    /\ ret = Pending
    /\ ret' = Multimedia__init__("http://example.org/logo.png", call.type, call.height, call.width)
    /\ UNCHANGED <<call, root, listener>>

InitIdent ==
    /\ call \in IdentCalls
    /\ ret = Pending
    /\ root = None
    /\ listener = <<>>

NextIdent ==
    \/ CallContentIdFromString
    \/ CallContentId
    \/ CallBearer
    \/ CallCridFromString
    \/ CallMultimedia

SpecIdent == InitIdent /\ [][NextIdent]_vars

\* the call named fn has run
Ran(fn) == call.fn = fn /\ ret # Pending

\* the call returned an object of class cls
ReturnedA(cls) == ret.raised = "None" /\ TypeOf(ret.value) = cls

(***************************************************************************)
(* Properties of the identifier and value types                            *)
(***************************************************************************)
LowerHexChars == {Ch(LowerHex, k) : k \in 1..16}
IsLowerHexRun(s, i, n) == \A k \in i..(i + n - 1) : Ch(s, k) \in LowerHexChars

\* a canonical identifier string: lower-case ecc(2).eid(4)[.sid(4 or 8).scids(1)]
IsCanonicalContentId(s) ==
    /\ IsLowerHexRun(s, 1, 2) /\ Ch(s, 3) = "." /\ IsLowerHexRun(s, 4, 4)
    /\ \/ Len(s) = 7
       \/ \E n \in {4, 8} :
            /\ Len(s) = 10 + n
            /\ Ch(s, 8) = "." /\ IsLowerHexRun(s, 9, n)
            /\ Ch(s, 9 + n) = "." /\ IsLowerHexRun(s, 10 + n, 1)

\* C3: for every valid canonical ContentId string s (sid of 4 or of 8 digits),
\* ContentId.fromstring(s) succeeds and str() of the result is s again.
ContentIdRoundTrip ==
    (Ran("ContentId.fromstring") /\ IsCanonicalContentId(call.string))
        => (ReturnedA("ContentId") /\ ContentId__str__(ret.value) = call.string)

\* the whole string is ECC.EId or ECC.EId.SId.SCIdS
IsWholeContentId(s) ==
    /\ ContentIdHead(s, 1)
    /\ \/ Len(s) = 7
       \/ \E n \in ContentIdTail(s, 8) : Len(s) = 10 + n

\* C4: ContentId.fromstring raises ValueError for every string that is not, as a
\* whole, of the form ECC.EId or ECC.EId.SId.SCIdS.
ContentIdRejectsMalformed ==
    (Ran("ContentId.fromstring") /\ ~IsWholeContentId(call.string))
        => ret.raised = "ValueError"

\* C5: every ContentId that a direct constructor call or fromstring returns has
\* sid present if and only if scids is present.
ContentIdSidIffScids ==
    ((Ran("ContentId") \/ Ran("ContentId.fromstring")) /\ ReturnedA("ContentId"))
        => (IsNone(ret.value.sid) <=> IsNone(ret.value.scids))

\* exactly eight hexadecimal characters
IsExactTrigger(t) == Len(t) = 8 /\ IsHexRun(t, 1, 8)

\* C6: with an identifier that can be constructed, Bearer(id, t) raises ValueError
\* for every t that is not exactly 8 hex characters, and for an absent t or one
\* of exactly 8 hex characters it succeeds and stores t verbatim.
BearerTriggerChecked ==
    (Ran("Bearer") /\ (IsStr(call.id) => ContentId_fromstring(call.id.v).raised = "None"))
        => IF IsNone(call.trigger) \/ IsExactTrigger(call.trigger.v)
           THEN ReturnedA("Bearer") /\ ret.value.trigger = call.trigger
           ELSE ret.raised = "ValueError"

\* C7: Multimedia of type unrestricted-logo fails unless both height and width
\* are provided; of any other type it fails if either is provided (0 counts as
\* provided); in all remaining cases construction succeeds.
MultimediaDimensionsChecked ==
    Ran("Multimedia")
        => LET both == ~IsNone(call.height) /\ ~IsNone(call.width)
               either == ~IsNone(call.height) \/ ~IsNone(call.width)
               fails == IF call.type = LOGO_UNRESTRICTED THEN ~both ELSE either
           IN  IF fails THEN ret.raised = "ValueError" ELSE ReturnedA("Multimedia")

\* C8: for every s = crid://<authority>/<data>, Crid.fromstring(s) has that
\* authority and that data, and str() of it is s again.
CridRoundTrip ==
    \A a \in CridAuthorities, d \in CridData :
        (Ran("Crid.fromstring") /\ call.string = "crid://" \o a \o "/" \o d)
            => /\ ReturnedA("Crid")
               /\ ret.value.authority = a
               /\ ret.value.data = d
               /\ Crid__str__(ret.value) = call.string

(***************************************************************************)
(* The caller: assembling a document and marshalling it                    *)
(***************************************************************************)
\* programmes, locations, times and bearers in a schedule, all together
MaxItems == 6
\* ensembles, frequencies and services in a ServiceInfo, all together
MaxInfoItems == 4

\* the times a caller puts into location.times: three absolute times, over
\* [10, 35], [20, 25] and [30, 30], and a relative one
TimeArgs ==
    {Time__init__(DateTime(10), TimeDelta(25)),
     Time__init__(DateTime(20), TimeDelta(5)),
     Time__init__(DateTime(30), TimeDelta(0)),
     RelativeTime__init__(TimeDelta(90), TimeDelta(5))}

ServiceId(sid) == ContentId__init__(PyInt(225), PyInt(52757), PyInt(sid), PyInt(0)).value

ServiceIds == {ServiceId(49697), ServiceId(49698)}

EnsembleId == ContentId__init__(PyInt(225), PyInt(52757), None, None).value

\* what a caller puts into location.bearers: ContentIds and Bearers
BearerArgs ==
    ServiceIds \cup {Bearer__init__(ServiceId(49697), None).value}

\* the root objects a caller starts from: a ServiceInfo (created or not given,
\* version 1 or 2), an Epg, and objects that are neither
Roots ==
    {ServiceInfo__init__(c, PyInt(v), None, None, "DAB") :
        c \in {None, DateTime(0)}, v \in 1..2}
    \cup {Epg__init__(None, "DAB")}
    \cup {Schedule__init__(DateTime(0), PyInt(1), None),
          Ensemble__init__(EnsembleId, PyInt(1)), PyStr("epg"), None}

Building == call = NoCall

\* the total number of entries of the field f of the locations of the schedule
RECURSIVE SumLen(_)
SumLen(seq) == IF seq = <<>> THEN 0 ELSE Len(Head(seq)) + SumLen(Tail(seq))

AllLocations(sch) ==
    LET RECURSIVE Cat(_)
        Cat(ps) == IF ps = <<>> THEN <<>> ELSE Head(ps).locations \o Cat(Tail(ps))
    IN  Cat(sch.programmes)

TimesOf(location) == location.times
BearersOf(location) == location.bearers

\* the number of programmes, locations, times and bearers of a schedule
Items(sch) ==
    Len(sch.programmes) + Len(AllLocations(sch))
    + SumLen(MapSeq(TimesOf, AllLocations(sch)))
    + SumLen(MapSeq(BearersOf, AllLocations(sch)))

RECURSIVE InfoItems(_)
InfoItems(ensembles) ==
    IF ensembles = <<>> THEN 0
    ELSE 1 + Len(Head(ensembles).frequencies) + Len(Head(ensembles).services)
         + InfoItems(Tail(ensembles))

InfoRoom == Building /\ TypeOf(root) = "ServiceInfo" /\ InfoItems(root.ensembles) < MaxInfoItems

Room(n) == Building /\ TypeOf(root) = "Epg" /\ Items(root.schedule) + n <= MaxItems

\* schedule.programmes.append(Programme(shortcrid))
AddProgramme ==
    /\ Room(1)
    /\ root' = [root EXCEPT !.schedule.programmes =
                  Append(@, Programme__init__(PyInt(Len(@) + 1), None, None,
                                              PyBool(TRUE), PyBool(TRUE), PyInt(1)))]
    /\ UNCHANGED <<call, ret, listener>>

\* programme.locations.append(Location()) or Location(bearers=[Bearer(id)]), on
\* the last programme
AddLocation ==
    /\ Room(1)
    /\ Len(root.schedule.programmes) > 0
    /\ LET p == Len(root.schedule.programmes)
       IN  \E bearers \in {None, PyList(<<Bearer__init__(ServiceId(49698), None).value>>)} :
                /\ ~IsNone(bearers) => Room(2)
                /\ root' = [root EXCEPT !.schedule.programmes[p].locations =
                              Append(@, Location__init__(None, bearers))]
    /\ UNCHANGED <<call, ret, listener>>

\* location.times.append(time), on the last location of the last programme
AddTime ==
    /\ Room(1)
    /\ Len(root.schedule.programmes) > 0
    /\ LET p == Len(root.schedule.programmes)
           l == Len(root.schedule.programmes[p].locations)
       IN  /\ l > 0
           /\ \E time \in TimeArgs :
                root' = [root EXCEPT !.schedule.programmes[p].locations[l].times =
                           Append(@, time)]
    /\ UNCHANGED <<call, ret, listener>>

\* location.bearers.append(bearer), on the last location of the last programme
AddBearer ==
    /\ Room(1)
    /\ Len(root.schedule.programmes) > 0
    /\ LET p == Len(root.schedule.programmes)
           l == Len(root.schedule.programmes[p].locations)
       IN  /\ l > 0
           /\ \E bearer \in BearerArgs :
                root' = [root EXCEPT !.schedule.programmes[p].locations[l].bearers =
                           Append(@, bearer)]
    /\ UNCHANGED <<call, ret, listener>>

\* info.ensembles.append(Ensemble(id, version))
AddEnsemble ==
    /\ InfoRoom
    /\ \E v \in 1..2 :
         root' = [root EXCEPT !.ensembles = Append(@, Ensemble__init__(EnsembleId, PyInt(v)))]
    /\ UNCHANGED <<call, ret, listener>>

\* ensemble.frequencies.append(kHz), on the last ensemble
AddFrequency ==
    /\ InfoRoom
    /\ Len(root.ensembles) > 0
    /\ LET e == Len(root.ensembles)
       IN  root' = [root EXCEPT !.ensembles[e].frequencies =
                         Append(@, PyInt(225648 - 1712 * Len(@)))]
    /\ UNCHANGED <<call, ret, listener>>

\* ensemble.services.append(Service(id, version=v)), on the last ensemble
AddService ==
    /\ InfoRoom
    /\ Len(root.ensembles) > 0
    /\ LET e == Len(root.ensembles)
       IN  \E id \in ServiceIds, v \in 1..2 :
                root' = [root EXCEPT !.ensembles[e].services =
                           Append(@, Service__init__(id, None, "primary", "audio", PyInt(v)))]
    /\ UNCHANGED <<call, ret, listener>>

\* marshall(root)
CallMarshall ==
    /\ Building
    /\ call' = [fn |-> "marshall"]
    /\ ret' = marshall(root)
    /\ listener' = on_element_calls(root)
    /\ UNCHANGED root

\* root.schedule.get_scope()
CallGetScope ==
    /\ Building /\ TypeOf(root) = "Epg"
    /\ call' = [fn |-> "Schedule.get_scope"]
    /\ ret' = Returned(Schedule_get_scope(root.schedule))
    /\ UNCHANGED <<root, listener>>

Init ==
    /\ call = NoCall
    /\ ret = Pending
    /\ root \in Roots
    /\ listener = <<>>

Next ==
    \/ AddProgramme
    \/ AddLocation
    \/ AddTime
    \/ AddBearer
    \/ AddEnsemble
    \/ AddFrequency
    \/ AddService
    \/ CallMarshall
    \/ CallGetScope

Spec == Init /\ [][Next]_vars

(***************************************************************************)
(* Properties of marshalling and of the scope                              *)
(***************************************************************************)
\* C1: marshall of a ServiceInfo (given its creation time) or of an Epg whose
\* entities were all constructed successfully returns the document; it raises
\* only for an unrecognized root.
MarshallFailsOnlyOnRootType ==
    (Ran("marshall") /\ (\/ TypeOf(root) = "Epg"
                         \/ TypeOf(root) = "ServiceInfo" /\ ~IsNone(root.created)))
        => (ret.raised = "None" /\ TypeOf(ret.value) = "Document")

\* C2: marshall of a root that is neither a ServiceInfo nor an Epg raises
\* ValueError and gives no document; a ServiceInfo goes to marshall_serviceinfo
\* (root element serviceInformation), an Epg to marshall_epg (root element epg).
MarshallDispatch ==
    Ran("marshall")
        => CASE TypeOf(root) = "ServiceInfo" ->
                  /\ ret = marshall_serviceinfo(root)
                  /\ ret.raised = "None" => ret.value.documentElement.tag = "serviceInformation"
             [] TypeOf(root) = "Epg" ->
                  /\ ret = marshall_epg(root)
                  /\ ret.raised = "None"
                  /\ ret.value.documentElement.tag = "epg"
             [] OTHER -> ret = Raised("ValueError")

\* marshall has refused a bare Schedule
MarshallDispatchWitness ==
    Ran("marshall") /\ TypeOf(root) = "Schedule" /\ ret.raised = "ValueError"

\* every entry of the times of every location of every programme
TimeEntries(sch) ==
    UNION {UNION {{sch.programmes[p].locations[l].times[k] :
                      k \in 1..Len(sch.programmes[p].locations[l].times)} :
                  l \in 1..Len(sch.programmes[p].locations)} :
           p \in 1..Len(sch.programmes)}

AbsoluteTimes(sch) == {time \in TimeEntries(sch) : TypeOf(time) = "Time"}

\* the schedule element of a marshalled Epg document
ScheduleElement(doc) == doc.documentElement.children[1]

\* C9: for a schedule with no programme, or with relative times only (however
\* many bearers its locations have), get_scope() returns None and the
\* marshalled schedule element has no scope child.
NoScopeWithoutAbsoluteTime ==
    (TypeOf(root) = "Epg" /\ AbsoluteTimes(root.schedule) = {})
        => /\ Ran("Schedule.get_scope") => ret = Returned(None)
           /\ Ran("marshall") =>
                /\ ret.raised = "None"
                /\ ScheduleElement(ret.value).tag = "schedule"
                /\ ChildrenNamed(ScheduleElement(ret.value), "scope") = <<>>

\* a schedule with a relative time and two bearers has been marshalled without
\* a scope element
NoScopeWitness ==
    /\ Ran("marshall") /\ TypeOf(root) = "Epg"
    /\ AbsoluteTimes(root.schedule) = {}
    /\ TimeEntries(root.schedule) # {}
    /\ Len(root.schedule.programmes) = 1
    /\ Len(root.schedule.programmes[1].locations) = 1
    /\ Len(root.schedule.programmes[1].locations[1].bearers) = 2
    /\ Len(ChildrenNamed(ScheduleElement(ret.value), "programme")) = 1
    /\ ChildrenNamed(ScheduleElement(ret.value), "scope") = <<>>

\* C10: for a schedule with at least one absolute Time, get_scope() has as
\* start the least billed time and as end the greatest billed time + billed
\* duration over all absolute times of all locations of all programmes,
\* whatever their order; relative times do not count.
ScopeCoversAbsoluteTimes ==
    (Ran("Schedule.get_scope") /\ AbsoluteTimes(root.schedule) # {})
        => /\ TypeOf(ret.value) = "Scope"
           /\ ret.value.start =
                DateTime(Min({time.billed_time.v : time \in AbsoluteTimes(root.schedule)}))
           /\ ret.value.end =
                DateTime(Max({time.billed_time.v + time.billed_duration.v :
                                time \in AbsoluteTimes(root.schedule)}))

\* get_scope has run on two programmes, the first over [20, 25] and the second
\* over [10, 35], and has given [10, 35]
ScopeWitness ==
    /\ Ran("Schedule.get_scope")
    /\ Len(root.schedule.programmes) = 2
    /\ Len(root.schedule.programmes[1].locations) = 1
    /\ Len(root.schedule.programmes[2].locations) = 1
    /\ root.schedule.programmes[1].locations[1].times
         = <<Time__init__(DateTime(20), TimeDelta(5))>>
    /\ root.schedule.programmes[2].locations[1].times
         = <<Time__init__(DateTime(10), TimeDelta(25))>>
    /\ TypeOf(ret.value) = "Scope"
    /\ ret.value.start = DateTime(10)
    /\ ret.value.end = DateTime(35)

\* every entry of the bearers of every location of every programme, in order
BearerEntries(sch) ==
    LET RECURSIVE Cat(_)
        Cat(ls) == IF ls = <<>> THEN <<>> ELSE Head(ls).bearers \o Cat(Tail(ls))
    IN  Cat(AllLocations(sch))

\* the entries of seq without those that occurred before
FirstOccurrences(seq) ==
    LET RECURSIVE Keep(_)
        Keep(n) == IF n = 0 THEN <<>>
                   ELSE IF \E k \in 1..(n - 1) : seq[k] = seq[n] THEN Keep(n - 1)
                   ELSE Append(Keep(n - 1), seq[n])
    IN  Keep(Len(seq))

\* C11: the services of the Scope that get_scope() returns are ContentIds, one
\* for each distinct canonical identifier string among the bearers (Bearer or
\* ContentId) of all locations of all programmes, in order of first
\* occurrence.
ScopeServicesDistinct ==
    (Ran("Schedule.get_scope") /\ TypeOf(ret.value) = "Scope")
        => /\ \A k \in 1..Len(ret.value.services) :
                 TypeOf(ret.value.services[k]) = "ContentId"
           /\ MapSeq(IdStr, ret.value.services)
                 = FirstOccurrences(MapSeq(IdStr, BearerEntries(root.schedule)))

\* get_scope has met a ContentId, a Bearer of the same identifier and another
\* ContentId, and has returned two services
ScopeServicesWitness ==
    /\ Ran("Schedule.get_scope") /\ TypeOf(ret.value) = "Scope"
    /\ BearerEntries(root.schedule)
         = <<ServiceId(49697), Bearer__init__(ServiceId(49697), None).value,
             ServiceId(49698)>>
    /\ ret.value.services = <<ServiceId(49697), ServiceId(49698)>>

(***************************************************************************)
(* The caller: formatting of durations and fitting of names                *)
(***************************************************************************)
\* the most days in a duration a caller formats
MaxDays == 2
\* the most strings a caller passes to suggest_names
MaxNames == 2

\* durations in seconds: every mix of no, few and most days, hours, minutes
\* and seconds
DurationArgs ==
    {d * 86400 + h * 3600 + m * 60 + sec :
        d \in 0..MaxDays, h \in {0, 1, 23}, m \in {0, 1, 59}, sec \in {0, 1, 30, 59}}

\* strings of 0, 3, 7, 8, 9, 15, 16, 17 and 20 characters
NameStrings ==
    {SubSeq("ABCDEFGHIJKLMNOPQRST", 1, n) : n \in {0, 3, 7, 8, 9, 15, 16, 17, 20}}

NameLists ==
    UNION {[1..n -> NameStrings] : n \in 0..MaxNames}

FormatCalls ==
    {[fn |-> "get_iso_period", duration |-> x] :
        x \in {TimeDelta(n) : n \in DurationArgs} \cup {PyInt(n) : n \in DurationArgs}}
    \cup {[fn |-> "suggest_names", names |-> l] : l \in NameLists}

CallGetIsoPeriod ==
    /\ call.fn = "get_iso_period"
    /\ ret = Pending
    /\ ret' = Returned(PyStr(get_iso_period(call.duration)))
    /\ UNCHANGED <<call, root, listener>>

CallSuggestNames ==
    /\ call.fn = "suggest_names"
    /\ ret = Pending
    /\ ret' = Returned(PyList(suggest_names(call.names)))
    /\ UNCHANGED <<call, root, listener>>

InitFormat ==
    /\ call \in FormatCalls
    /\ ret = Pending
    /\ root = None
    /\ listener = <<>>

NextFormat ==
    \/ CallGetIsoPeriod
    \/ CallSuggestNames

SpecFormat == InitFormat /\ [][NextFormat]_vars

(***************************************************************************)
(* Properties of get_iso_period and suggest_names                          *)
(***************************************************************************)
\* a unit of a period: absent when zero
PeriodUnit(n, letter) == IF n > 0 THEN ToString(n) \o letter ELSE ""

\* the period of d days, h hours, m minutes and sec seconds
PeriodOf(d, h, m, sec) ==
    "P" \o PeriodUnit(d, "D") \o "T" \o PeriodUnit(h, "H") \o PeriodUnit(m, "M")
        \o PeriodUnit(sec, "S") \o (IF h = 0 /\ m = 0 /\ sec = 0 THEN "0S" ELSE "")

\* C12: get_iso_period of a duration of n >= 0 seconds (a timedelta or an int)
\* is P[dD]T[hH][mM][sS] for the days d, hours h < 24, minutes m < 60 and
\* seconds sec < 60 that sum to n, a unit being present only if non-zero and
\* "0S" standing for an empty time part; 0 gives PT0S, 90 gives PT1M30S and
\* one day gives P1DT0S.
IsoPeriodUnits ==
    Ran("get_iso_period")
        => LET n == call.duration.v
           IN  /\ \E d \in 0..(n \div 86400), h \in 0..23, m \in 0..59 :
                     LET sec == n - d * 86400 - h * 3600 - m * 60
                     IN  /\ sec \in 0..59
                         /\ ret = Returned(PyStr(PeriodOf(d, h, m, sec)))
               /\ n = 0 => ret.value.v = "PT0S"
               /\ n = 90 => ret.value.v = "PT1M30S"
               /\ n = 86400 => ret.value.v = "P1DT0S"

\* a duration of exactly one day has been formatted as P1DT0S
IsoPeriodWitness ==
    /\ Ran("get_iso_period")
    /\ call.duration = TimeDelta(86400)
    /\ ret = Returned(PyStr("P1DT0S"))

\* C18: suggest_names gives, for each string in input order, Short, Medium and
\* Long of the full string if it has at most 8 characters; Short of its first
\* 7 characters, Medium and Long of the full string if it has 9 to 16; Short
\* of its first 7, Medium of its first 15 and Long of the full string if it
\* has more than 16.
SuggestNamesTiers ==
    Ran("suggest_names")
        => /\ Len(ret.value.v) = 3 * Len(call.names)
           /\ \A k \in 1..Len(call.names) :
                 LET name == call.names[k]
                     short == ret.value.v[3 * k - 2]
                     medium == ret.value.v[3 * k - 1]
                     long == ret.value.v[3 * k]
                 IN  /\ TypeOf(short) = "ShortName"
                     /\ TypeOf(medium) = "MediumName"
                     /\ TypeOf(long) = "LongName"
                     /\ short.text = (IF Len(name) <= 8 THEN name ELSE SubSeq(name, 1, 7))
                     /\ medium.text = (IF Len(name) <= 16 THEN name ELSE SubSeq(name, 1, 15))
                     /\ long.text = name

(***************************************************************************)
(* Properties of the attributes of marshalled elements                     *)
(***************************************************************************)
HasAttr(element, name) == name \in DOMAIN element.attrs

\* element has the attribute version exactly when version > 1, and then as
\* the decimal version
VersionIfAboveOne(element, version) ==
    /\ HasAttr(element, "version") <=> version.v > 1
    /\ HasAttr(element, "version") => element.attrs["version"] = ToString(version.v)

\* the services of all ensembles of a ServiceInfo
AllServices(info) ==
    UNION {{info.ensembles[e].services[k] : k \in 1..Len(info.ensembles[e].services)} :
           e \in 1..Len(info.ensembles)}

\* C13: in a marshalled ServiceInfo document the root element and each
\* ensemble element have the attribute version if and only if the version of
\* the object is greater than 1, and then with the decimal version as value;
\* so has each service element, in the document and as marshall_serviceinfo
\* first builds it.
VersionAboveOneOnly ==
    (Ran("marshall") /\ TypeOf(root) = "ServiceInfo")
        => /\ ret.raised = "None" =>
                LET info_element == ret.value.documentElement
                    ensembles == ChildrenNamed(info_element, "ensemble")
                IN  /\ info_element.tag = "serviceInformation"
                    /\ VersionIfAboveOne(info_element, root.version)
                    /\ Len(ensembles) = Len(root.ensembles)
                    /\ \A e \in 1..Len(ensembles) :
                          /\ VersionIfAboveOne(ensembles[e], root.ensembles[e].version)
                          /\ LET services == ChildrenNamed(ensembles[e], "service")
                             IN  /\ Len(services) = Len(root.ensembles[e].services)
                                 /\ \A k \in 1..Len(services) :
                                       VersionIfAboveOne(services[k],
                                           root.ensembles[e].services[k].version)
           /\ \A service \in AllServices(root) :
                 VersionIfAboveOne(build_service_start(service), service.version)

\* a ServiceInfo of version 2 with an ensemble of version 1 and one of version
\* 2 has been marshalled: version="2" on the root and on the second ensemble
VersionWitness ==
    /\ Ran("marshall") /\ TypeOf(root) = "ServiceInfo" /\ ret.raised = "None"
    /\ root.version = PyInt(2)
    /\ Len(root.ensembles) = 2
    /\ root.ensembles[1].version = PyInt(1)
    /\ root.ensembles[2].version = PyInt(2)
    /\ Len(root.ensembles[2].frequencies) = 1
    /\ ret.value.documentElement.attrs["version"] = "2"
    /\ ~HasAttr(ret.value.documentElement.children[1], "version")
    /\ ret.value.documentElement.children[2].attrs["version"] = "2"

(***************************************************************************)
(* The caller: one programme, its children and its events                  *)
(***************************************************************************)
\* names, locations, media, genres, memberships, links and events of the
\* programme, all together
MaxChildren == 3
\* events of the programme
MaxEvents == 1
\* programmes of the schedule
MaxProgrammes == 2

\* a keyword argument the caller leaves out
NotGiven == [t |-> "notgiven"]
Arg(x, default) == IF x = NotGiven THEN default ELSE x

\* Programme(shortcrid, onair=True, recommendation=True, version=1)
NewProgramme(shortcrid, onair, recommendation, version) ==
    Programme__init__(shortcrid, None, None, Arg(onair, PyBool(TRUE)),
                      Arg(recommendation, PyBool(TRUE)), Arg(version, PyInt(1)))

\* ProgrammeEvent(shortcrid, version=None, onair=True, recommendation=False)
NewProgrammeEvent(shortcrid, onair, recommendation) ==
    ProgrammeEvent__init__(shortcrid, None, None, None, None,
                           Arg(onair, PyBool(TRUE)), Arg(recommendation, PyBool(FALSE)))

ProgrammeCalls ==
    {[fn |-> "Programme", onair |-> o, recommendation |-> r, version |-> v] :
        o \in {NotGiven, PyBool(FALSE)},
        r \in {NotGiven, PyBool(FALSE)},
        v \in {NotGiven, PyInt(2), None}}

\* the k-th entry a caller appends to a list: the entries of a list differ
NameArg(k) ==
    CASE k = 1 -> LongName__init__("Long name " \o ToString(k))
      [] k = 2 -> ShortName__init__("Short " \o ToString(k))
      [] OTHER -> MediumName__init__("Medium " \o ToString(k))

LocationArg(k) ==
    IF k % 2 = 1
    THEN Location__init__(
             PyList(<<Time__init__(DateTime(10 * k), TimeDelta(25)),
                      RelativeTime__init__(TimeDelta(90), TimeDelta(5))>>),
             PyList(<<ServiceId(49697), Bearer__init__(ServiceId(49698), None).value>>))
    ELSE Location__init__(PyList(<<RelativeTime__init__(TimeDelta(60 * k), TimeDelta(5))>>),
                          None)

MediaArg(k) ==
    IF k % 2 = 1 THEN ShortDescription__init__("Description " \o ToString(k))
    ELSE Multimedia__init__("http://example.org/logo.png", LOGO_UNRESTRICTED,
                            PyInt(k), PyInt(k)).value

GenreArg(k) == Genre__init__("urn:tva:metadata:cs:ContentCS:2002:3." \o ToString(k), None)
MembershipArg(k) == Membership__init__(PyInt(k), None, PyInt(k))
LinkArg(k) == Link__init__("http://example.org/" \o ToString(k), None, None, None)

\* an event: those at odd positions get a name, a location, a description, a
\* genre, a membership and a link
EventArg(k, onair, recommendation) ==
    LET event == NewProgrammeEvent(PyInt(k), onair, recommendation)
    IN  IF k % 2 = 1
        THEN [event EXCEPT !.names = <<NameArg(2)>>,
                           !.locations = <<LocationArg(1)>>,
                           !.media = <<MediaArg(1)>>,
                           !.genres = <<GenreArg(1)>>,
                           !.memberships = <<MembershipArg(1)>>,
                           !.links = <<LinkArg(1)>>]
        ELSE event

\* the programme of the schedule
TheProgramme == root.schedule.programmes[1]

Children(programme) ==
    Len(programme.names) + Len(programme.locations) + Len(programme.media)
    + Len(programme.genres) + Len(programme.memberships) + Len(programme.links)
    + Len(programme.events)

Populating ==
    /\ call.fn = "Programme" /\ ret # Pending
    /\ Children(TheProgramme) < MaxChildren

\* the caller's reference to the programme and the schedule's are one object
SetProgramme(programme) ==
    /\ root' = [root EXCEPT !.schedule.programmes[1] = programme]
    /\ ret' = Returned(programme)
    /\ UNCHANGED <<call, listener>>

\* programme = Programme(1, ...); epg.schedule.programmes.append(programme)
CallProgramme ==
    /\ call.fn = "Programme" /\ ret = Pending
    /\ LET programme == NewProgramme(PyInt(1), call.onair, call.recommendation, call.version)
       IN  /\ root' = [root EXCEPT !.schedule.programmes = Append(@, programme)]
           /\ ret' = Returned(programme)
    /\ UNCHANGED <<call, listener>>

AppendName ==
    /\ Populating
    /\ SetProgramme([TheProgramme EXCEPT !.names = Append(@, NameArg(Len(@) + 1))])

AppendLocation ==
    /\ Populating
    /\ SetProgramme([TheProgramme EXCEPT !.locations = Append(@, LocationArg(Len(@) + 1))])

AppendMedia ==
    /\ Populating
    /\ SetProgramme([TheProgramme EXCEPT !.media = Append(@, MediaArg(Len(@) + 1))])

AppendGenre ==
    /\ Populating
    /\ SetProgramme([TheProgramme EXCEPT !.genres = Append(@, GenreArg(Len(@) + 1))])

AppendMembership ==
    /\ Populating
    /\ SetProgramme([TheProgramme EXCEPT
                        !.memberships = Append(@, MembershipArg(Len(@) + 1))])

AppendLink ==
    /\ Populating
    /\ SetProgramme([TheProgramme EXCEPT !.links = Append(@, LinkArg(Len(@) + 1))])

\* programme.events.append(ProgrammeEvent(k, ...))
AppendEvent ==
    /\ Populating
    /\ Len(TheProgramme.events) < MaxEvents
    /\ \E onair \in {NotGiven, PyBool(FALSE)}, recommendation \in {NotGiven, PyBool(TRUE)} :
         SetProgramme([TheProgramme EXCEPT
                         !.events = Append(@, EventArg(Len(@) + 1, onair, recommendation))])

\* epg.schedule.programmes.append(Programme(k)), after the first programme
AppendProgramme ==
    /\ call.fn = "Programme" /\ ret # Pending
    /\ Len(root.schedule.programmes) < MaxProgrammes
    /\ root' = [root EXCEPT !.schedule.programmes =
                  Append(@, NewProgramme(PyInt(Len(@) + 1), NotGiven, NotGiven, NotGiven))]
    /\ UNCHANGED <<call, ret, listener>>

\* marshall(epg, listener), by the caller that made the programme
CallMarshallEpg ==
    /\ call.fn = "Programme" /\ ret # Pending
    /\ call' = [fn |-> "marshall", programme |-> call]
    /\ ret' = marshall(root)
    /\ listener' = on_element_calls(root)
    /\ UNCHANGED root

InitProgramme ==
    /\ call \in ProgrammeCalls
    /\ ret = Pending
    /\ root = Epg__init__(None, "DAB")
    /\ listener = <<>>

NextProgramme ==
    \/ CallProgramme
    \/ AppendName
    \/ AppendLocation
    \/ AppendMedia
    \/ AppendGenre
    \/ AppendMembership
    \/ AppendLink
    \/ AppendEvent
    \/ AppendProgramme
    \/ CallMarshallEpg

SpecProgramme == InitProgramme /\ [][NextProgramme]_vars

(***************************************************************************)
(* Properties of the programme and programmeEvent elements                 *)
(***************************************************************************)
\* the programme element of the marshalled document
ProgrammeElement == ChildrenNamed(ScheduleElement(ret.value), "programme")[1]

\* its programmeEvent elements
EventElements == ChildrenNamed(ProgrammeElement, "epg:programmeEvent")

\* C14: the programme element has the attribute version only when the
\* version of the Programme is greater than 1; a Programme constructed with
\* the default version is marshalled without the attribute.
ProgrammeVersionAboveDefault ==
    Ran("marshall")
        => /\ HasAttr(ProgrammeElement, "version")
                => (IsInt(TheProgramme.version) /\ TheProgramme.version.v > 1)
           /\ call.programme.version = NotGiven => ~HasAttr(ProgrammeElement, "version")

\* C15: a Programme constructed without recommendation has recommendation
\* False, and its programme element has no attribute recommendation.
ProgrammeRecommendationDefault ==
    /\ (Ran("Programme") /\ call.recommendation = NotGiven)
          => ret.value.recommendation = PyBool(FALSE)
    /\ (Ran("marshall") /\ call.programme.recommendation = NotGiven)
          => /\ TheProgramme.recommendation = PyBool(FALSE)
             /\ ~HasAttr(ProgrammeElement, "recommendation")

\* element has broadcast="off-air" exactly when onair is False
OffAirIffNotOnAir(element, object) ==
    /\ HasAttr(element, "broadcast") <=> object.onair = PyBool(FALSE)
    /\ HasAttr(element, "broadcast") => element.attrs["broadcast"] = "off-air"

\* C16: the element of a Programme and of a ProgrammeEvent has
\* broadcast="off-air" if and only if onair is False; with onair True (the
\* default) it has no attribute broadcast.
BroadcastOffAirIffNotOnAir ==
    Ran("marshall")
        => /\ OffAirIffNotOnAir(ProgrammeElement, TheProgramme)
           /\ Len(EventElements) = Len(TheProgramme.events)
           /\ \A k \in 1..Len(EventElements) :
                 OffAirIffNotOnAir(EventElements[k], TheProgramme.events[k])

\* element has recommendation="yes" exactly when recommendation is True
YesIffRecommended(element, object) ==
    TypeOf(object.recommendation) = "bool"
        => /\ HasAttr(element, "recommendation") <=> object.recommendation = PyBool(TRUE)
           /\ HasAttr(element, "recommendation") => element.attrs["recommendation"] = "yes"

\* C17: the element of a Programme and of a ProgrammeEvent whose
\* recommendation is a bool has recommendation="yes" if and only if it is
\* True.
RecommendationYesIffTrue ==
    Ran("marshall")
        => /\ YesIffRecommended(ProgrammeElement, TheProgramme)
           /\ Len(EventElements) = Len(TheProgramme.events)
           /\ \A k \in 1..Len(EventElements) :
                 YesIffRecommended(EventElements[k], TheProgramme.events[k])

\* a Programme with recommendation=False and an event with
\* recommendation=True have been marshalled: the attribute is on the event
\* element only
RecommendationWitness ==
    /\ Ran("marshall")
    /\ TheProgramme.recommendation = PyBool(FALSE)
    /\ Len(TheProgramme.events) = 1
    /\ TheProgramme.events[1].recommendation = PyBool(TRUE)
    /\ ~HasAttr(ProgrammeElement, "recommendation")
    /\ EventElements[1].attrs["recommendation"] = "yes"

(***************************************************************************)
(* Properties of the listener                                              *)
(***************************************************************************)
\* element and the elements below it, in document order
RECURSIVE ElementsOf(_)
ElementsOf(element) ==
    LET RECURSIVE Below(_)
        Below(nodes) ==
            IF nodes = <<>> THEN <<>>
            ELSE (IF IsElement(Head(nodes)) THEN ElementsOf(Head(nodes)) ELSE <<>>)
                     \o Below(Tail(nodes))
    IN  <<element>> \o Below(element.children)

\* the elements the listener is to be told of
ListenedTags ==
    {"epg", "serviceInformation", "schedule", "scope", "serviceScope", "ensemble",
     "frequency", "service", "serviceID", "programme", "epg:programmeEvent",
     "epg:shortName", "epg:mediumName", "epg:longName", "epg:location", "epg:time",
     "epg:relativeTime", "epg:bearer", "epg:mediaDescription", "mediaDescription",
     "epg:genre", "memberOf", "link"}

\* C19: every element of the marshalled document (the root, schedule, scope,
\* serviceScope, programme, programmeEvent, name, location, time, bearer,
\* mediaDescription, genre, memberOf and link elements, those inside a
\* programmeEvent too) was passed to listener.on_element with all its
\* attributes and children in place and before it was appended to its parent.
ListenerToldOfEveryElement ==
    (Ran("marshall") /\ ret.raised = "None")
        => LET elements == ElementsOf(ret.value.documentElement)
           IN  \A i \in 1..Len(elements) :
                   elements[i].tag \in ListenedTags
                       => \E k \in 1..Len(listener) :
                              /\ listener[k].element = elements[i]
                              /\ ~listener[k].attached

(***************************************************************************)
(* Properties of the order of the children                                 *)
(***************************************************************************)
\* the groups of children of a programme element, in their order
ChildGroups ==
    <<{"epg:shortName", "epg:mediumName", "epg:longName"}, {"epg:location"},
      {"epg:mediaDescription"}, {"epg:genre"}, {"memberOf"}, {"link"},
      {"epg:programmeEvent"}>>

GroupOf(tag) == CHOOSE g \in 1..Len(ChildGroups) : tag \in ChildGroups[g]

\* the children of element that belong to group g, in document order
ChildrenOfGroup(element, g) ==
    SelectSeq(element.children, LAMBDA c : c.tag \in ChildGroups[g])

\* no child of a later group stands before a child of an earlier group
GroupsInOrder(element) ==
    \A i, j \in 1..Len(element.children) :
        i < j => GroupOf(element.children[i].tag) <= GroupOf(element.children[j].tag)

\* a location element: the times in list order, then the bearers in list order
LocationInOrder(element, location) ==
    LET times == SelectSeq(element.children,
                           LAMBDA c : c.tag \in {"epg:time", "epg:relativeTime"})
        bearers == ChildrenNamed(element, "epg:bearer")
    IN  /\ element.children = times \o bearers
        /\ times = MapSeq(build_time, location.times)
        /\ bearers = MapSeq(build_bearer, location.bearers)

\* the children of a programme or programmeEvent element: group after group,
\* each group in the order of its list
ChildrenInOrder(element, object) ==
    /\ GroupsInOrder(element)
    /\ ChildrenOfGroup(element, 1) = MapSeq(build_name, object.names)
    /\ Len(ChildrenOfGroup(element, 2)) = Len(object.locations)
    /\ \A l \in 1..Len(object.locations) :
          LocationInOrder(ChildrenOfGroup(element, 2)[l], object.locations[l])
    /\ ChildrenOfGroup(element, 3) = MapSeq(build_epg_mediagroup, object.media)
    /\ ChildrenOfGroup(element, 4) = MapSeq(build_genre, object.genres)
    /\ ChildrenOfGroup(element, 5) = MapSeq(build_membership, object.memberships)
    /\ ChildrenOfGroup(element, 6) = MapSeq(build_link, object.links)

\* C20: the children of the schedule element are the scope, if any, then the
\* programme elements in the order of schedule.programmes; the children of a
\* programme element are its names, locations, media, genres, memberships,
\* links and programmeEvents, group after group and each in list order; a
\* location element has its times, then its bearers, in list order; a
\* programmeEvent element has the same order, without events.
ChildrenInDocumentOrder ==
    Ran("marshall")
        => LET schedule_element == ScheduleElement(ret.value)
               scopes == ChildrenNamed(schedule_element, "scope")
               programmes == ChildrenNamed(schedule_element, "programme")
           IN  /\ schedule_element.children = scopes \o programmes
               /\ Len(scopes) = (IF AbsoluteTimes(root.schedule) # {} THEN 1 ELSE 0)
               /\ Len(programmes) = Len(root.schedule.programmes)
               /\ \A p \in 1..Len(programmes) :
                     LET programme == root.schedule.programmes[p]
                         events == ChildrenOfGroup(programmes[p], 7)
                     IN  /\ programmes[p].attrs["shortId"] = Str(programme.shortcrid)
                         /\ ChildrenInOrder(programmes[p], programme)
                         /\ Len(events) = Len(programme.events)
                         /\ \A k \in 1..Len(events) :
                               /\ events[k].attrs["shortId"] = Str(programme.events[k].shortcrid)
                               /\ ChildrenInOrder(events[k], programme.events[k])
                               /\ ChildrenOfGroup(events[k], 7) = <<>>

\* two programmes have been marshalled, the first with a name, a location of
\* two times and two bearers and a populated event: scope, programme 1,
\* programme 2; name, location, event; time, relativeTime, bearer, bearer
ChildrenOrderWitness ==
    /\ Ran("marshall")
    /\ Len(root.schedule.programmes) = 2
    /\ MapSeq(LAMBDA c : c.tag, ScheduleElement(ret.value).children)
         = <<"scope", "programme", "programme">>
    /\ MapSeq(LAMBDA c : c.tag, ProgrammeElement.children)
         = <<"epg:longName", "epg:location", "epg:programmeEvent">>
    /\ MapSeq(LAMBDA c : c.tag, ProgrammeElement.children[2].children)
         = <<"epg:time", "epg:relativeTime", "epg:bearer", "epg:bearer">>
    /\ MapSeq(LAMBDA c : c.tag, ProgrammeElement.children[3].children)
         = <<"epg:shortName", "epg:location", "epg:mediaDescription", "epg:genre",
             "memberOf", "link">>

(***************************************************************************)
(* Equality of identifiers                                                 *)
(***************************************************************************)
\* Bearer.__eq__: the identifiers and the triggers of two Bearers; for any
\* other operand the method ends without a return statement and gives None
Bearer__eq__(self, other) ==
    IF TypeOf(other) = "Bearer"
    THEN PyBool(ContentId__eq__(self.id, other.id) /\ self.trigger = other.trigger)
    ELSE None

\* left == right: the __eq__ of the left operand answers
PyEq(left, right) ==
    IF TypeOf(left) = "Bearer" THEN Bearer__eq__(left, right)
    ELSE PyBool(ContentId__eq__(left, right))

\* the longest sid a caller compares is ServiceId(49696 + MaxSid)
MaxSid == 2

\* the ContentIds a caller compares: an ensemble, its services, and the
\* ensemble given with a sid and no scids
EqContentIds ==
    {EnsembleId, ContentId__init__(PyInt(225), PyInt(52757), PyInt(49697), None).value}
    \cup {ServiceId(49696 + k) : k \in 1..MaxSid}

\* the Bearers: of each of them, without and with a trigger
EqBearers ==
    {Bearer__init__(id, trigger).value :
        id \in EqContentIds, trigger \in {None, PyStr("c2210001")}}

EqCalls ==
    {[fn |-> "==", left |-> x, right |-> y] :
        x \in EqContentIds \cup EqBearers, y \in EqContentIds \cup EqBearers}

\* contentid == other
CallContentIdEq ==
    /\ call.fn = "==" /\ TypeOf(call.left) = "ContentId"
    /\ ret = Pending
    /\ ret' = Returned(PyEq(call.left, call.right))
    /\ UNCHANGED <<call, root, listener>>

\* bearer == other
CallBearerEq ==
    /\ call.fn = "==" /\ TypeOf(call.left) = "Bearer"
    /\ ret = Pending
    /\ ret' = Returned(PyEq(call.left, call.right))
    /\ UNCHANGED <<call, root, listener>>

InitEquality ==
    /\ call \in EqCalls
    /\ ret = Pending
    /\ root = None
    /\ listener = <<>>

NextEquality ==
    \/ CallContentIdEq
    \/ CallBearerEq

SpecEquality == InitEquality /\ [][NextEquality]_vars

\* C21: equality of identifiers is symmetric and goes by the canonical
\* string: for a ContentId c and a Bearer b (with or without trigger) of the
\* same canonical string, c == b and b == c have the same truth value; for
\* two ContentIds, x == y exactly when str(x) = str(y).
IdentifierEqualitySymmetric ==
    Ran("==")
        => LET left == call.left
               right == call.right
           IN  /\ (TypeOf(left) # TypeOf(right) /\ IdStr(left) = IdStr(right))
                     => Truthy(ret.value) = Truthy(PyEq(right, left))
               /\ (TypeOf(left) = "ContentId" /\ TypeOf(right) = "ContentId")
                     => Truthy(ret.value) = (ContentId__str__(left) = ContentId__str__(right))

====
